---- MODULE Spec2Model ----
(***************************************************************************)
(* CityEngine (src/src/model.py): the per-year state-transition engine of  *)
(* the urban scaling simulator.                                            *)
(*                                                                         *)
(* Python floats are modelled as fixed-point integers.  Wealth, morale and *)
(* output are counted in units of 1/W (one millionth); rates, ratios,      *)
(* productivity and the values of log/exp are counted in units of 1/R (one *)
(* ten-thousandth).  Every draw from the process-wide random generator     *)
(* (random.lognormvariate, random.random) is a nondeterministic choice.    *)
(***************************************************************************)
EXTENDS Integers, Sequences, FiniteSets

VARIABLES
    intellect,          \* self.intellect (units of 1/R)
    year,               \* self.year
    cost,               \* self.cost (units of 1/W)
    wealth_dist,        \* self.wealth_dist, a list (units of 1/W)
    gini_data,          \* self.gini_data (units of 1/R)
    population_data,    \* self.population_data
    response,           \* what the last call returned to its caller
    frame,              \* the arguments and local variables of the last call
    shifts              \* number of direct handle_population_shift calls made by the caller

vars == <<intellect, year, cost, wealth_dist, gini_data, population_data,
          response, frame, shifts>>

---------------------------------------------------------------------------
(* Resolutions of the fixed-point representation.                          *)
R == 10000
W == 1000000

(* Bounds of the model: the years a run is advanced, and the calls of      *)
(* handle_population_shift the caller makes itself.                        *)
MaxYear == 2
MaxShifts == 1

(* System constants set by the constructor.                                *)
beta == 11500
land_capacity == 10000
base_growth == 80
eta_base == 200
infrastructure == 6000
policy_barrier == 4000
info_flow == 7000
alpha_I == 10000
alpha_P == 15000
alpha_F == 8000
benchmark_morale == 25

(* Draws of random.lognormvariate(0, 0.3), in units of 1/R.                *)
Shocks == {5000, 20000}

(* The (edu_rate, tax_rate) pairs a caller passes, in units of 1/R.        *)
Levers == {[edu |-> 0, tax |-> 10000], [edu |-> 5000, tax |-> 1500]}

(* The initial populations a caller configures, and the targets it passes  *)
(* to handle_population_shift.                                             *)
Populations == 0..3
Targets == -1..3

(* Constructor configurations.  ValidConfigs are those a validating        *)
(* constructor would accept; AnyConfigs adds values the constructor is     *)
(* handed unchecked.                                                       *)
ValidConfigs ==
    [intellect : {45000},
     population : Populations,
     wealth : {5 * W, 10 * W + 1, 50 * W},
     cost : {10 * W}]

AnyConfigs ==
    [intellect : {0, 45000},
     population : -1..2,
     wealth : {0, 15 * W},
     cost : {0, 10 * W}]

---------------------------------------------------------------------------
(* Arithmetic.                                                             *)

Max(a, b) == IF a >= b THEN a ELSE b

\* a * b / c for a rate b (|b| a few R at most), without leaving 32 bits.
MulDiv(a, b, c) == (a \div c) * b + ((a % c) * b) \div c

\* a / b in units of 1/R, for 0 <= a <= 2 * b.
Ratio(a, b) ==
    IF b > 100000
    THEN LET k == b \div 50000 IN ((a \div k) * R) \div (b \div k)
    ELSE (a * R) \div b

\* math.log(a / b) in units of 1/R, for a > 0 and b > 0.
RECURSIVE LnRatio(_, _)
LnRatio(a, b) ==
    IF a >= 2 * b
    THEN (IF b < 500000000 THEN LnRatio(a, 2 * b) ELSE LnRatio(a \div 2, b)) + 6931
    ELSE IF a < b THEN LnRatio(2 * a, b) - 6931
    ELSE LET a1 == IF b > 250000000 THEN a \div 8 ELSE a
             b1 == IF b > 250000000 THEN b \div 8 ELSE b
             z  == Ratio(a1 - b1, a1 + b1)
             z2 == (z * z) \div R
             z3 == (z * z2) \div R
             z5 == (z3 * z2) \div R
             z7 == (z5 * z2) \div R
         IN  2 * z + (2 * z3) \div 3 + (2 * z5) \div 5 + (2 * z7) \div 7

\* math.exp(v / R) in units of 1/R.
RECURSIVE Exp(_)
Exp(v) ==
    IF v > 3466 THEN 2 * Exp(v - 6931)
    ELSE IF v < -3466 THEN Exp(v + 6931) \div 2
    ELSE LET v2 == (v * v) \div R
             v3 == (v2 * v) \div R
             v4 == (v3 * v) \div R
             v5 == (v4 * v) \div R
         IN  R + v + v2 \div 2 + v3 \div 6 + v4 \div 24 + v5 \div 120

\* math.pow(a / b, p / R) in units of 1/R, for a >= 0 and b > 0.
Pow(a, b, p) == IF a = 0 THEN 0 ELSE Exp((p * LnRatio(a, b)) \div R)

\* math.sqrt(a / R) in units of 1/R, for a > 0 (Newton's iteration).
RECURSIVE Newton(_, _)
Newton(n, g) ==
    LET h == (g + n \div g) \div 2 IN IF h >= g THEN g ELSE Newton(n, h)

Sqrt(a) == Newton(a * R, a * R)

RECURSIVE Sum(_)
Sum(s) == IF s = <<>> THEN 0 ELSE Head(s) + Sum(Tail(s))

RECURSIVE Insert(_, _)
Insert(x, s) ==
    IF s = <<>> THEN <<x>>
    ELSE IF x <= Head(s) THEN <<x>> \o s
    ELSE <<Head(s)>> \o Insert(x, Tail(s))

\* sorted(wealth)
RECURSIVE Sorted(_)
Sorted(s) == IF s = <<>> THEN <<>> ELSE Insert(Head(s), Sorted(Tail(s)))

\* [w] * n: a negative n gives the empty list
Replicate(w, n) == IF n <= 0 THEN <<>> ELSE [i \in 1..n |-> w]

---------------------------------------------------------------------------
(* Return values.  Python's return values are of several types (the int 0, *)
(* a dict, None, or no value when the call raises); `kind` tells them      *)
(* apart.  A dict's "gini" is <<>> for None and <<g>> for the number g.    *)

NoResponse ==
    [kind |-> "none", value |-> 0, year |-> 0, population |-> 0,
     gini |-> <<>>, morale |-> 0, yield |-> 0]

IntResponse(v) == [NoResponse EXCEPT !.kind = "int", !.value = v]

RaiseResponse == [NoResponse EXCEPT !.kind = "raise"]

DictResponse(y, p, g, m, yl) ==
    [kind |-> "dict", value |-> 0, year |-> y, population |-> p,
     gini |-> g, morale |-> m, yield |-> yl]

\* the dict returned when the survival step leaves nobody
ExtinctionRecord(y) == DictResponse(y, 0, <<>>, 0, 0)

\* round(gini, 3), in thousandths
Round3(g) == (g + 5) \div 10

\* round(morale, 2), in hundredths
Round2(m) == (m + (W \div 200)) \div (W \div 100)

\* the dict returned at the end of a full year
YearRecord(y, p, gini, morale, gross_yield) ==
    DictResponse(y, p, <<Round3(gini)>>, Round2(morale), gross_yield \div W)

NoFrame ==
    [op |-> "__init__", edu_rate |-> 0, tax_rate |-> 0,
     projected_population |-> 0, entry |-> <<>>, survivors |-> <<>>,
     before_shift |-> <<>>, gross_yield |-> 0, gini |-> 0, morale |-> 0,
     raw_migration |-> 0, reached |-> "none", shifted |-> FALSE]

---------------------------------------------------------------------------
(* CityEngine.                                                             *)

\* __init__: no parameter is checked
Construct(config) ==
    /\ intellect = config.intellect
    /\ year = 0
    /\ cost = config.cost
    /\ wealth_dist = Replicate(config.wealth, config.population)
    /\ gini_data = <<>>
    /\ population_data = <<>>
    /\ response = NoResponse
    /\ frame = NoFrame
    /\ shifts = 0

\* get_gini.  2 * cum / (n * total) - (n + 1) / n is computed as
\* ((2 * cum - (n + 1) * total) / n) / total, the sum taken term by term.
get_gini(wealth) ==
    IF wealth = <<>> THEN 0
    ELSE LET sorted_w == Sorted(wealth)
             n == Len(sorted_w)
             total == Sum(sorted_w)
         IN  IF total = 0 THEN 0
             ELSE Ratio(Sum([i \in 1..n |-> (2 * i - n - 1) * sorted_w[i]]) \div n,
                        total)

get_migration_sensitivity ==
    LET infra_effect == R + (alpha_I * infrastructure) \div R
        policy_effect == Exp(-((alpha_P * policy_barrier) \div R))
        info_effect == R + (alpha_F * info_flow) \div R
    IN  (((((eta_base * infra_effect) \div R) * policy_effect) \div R) * info_effect) \div R

\* The rosters made of m entries of `roster` taken at distinct positions, in
\* any order.
Ranked(roster, m) ==
    {[i \in 1..m |-> roster[f[i]]] :
        f \in {g \in [1..m -> 1..Len(roster)] :
                  \A i, j \in 1..m : i # j => g[i] # g[j]}}

NewcomersNoBuffer(roster, diff) ==
    LET avg_wealth == Sum(roster) \div Len(roster)
    IN  {[i \in 1..diff |-> MulDiv(avg_wealth, s[i], R)] : s \in [1..diff -> Shocks]}

\* handle_population_shift, lines 103-108: the lists of newcomers, one per
\* draw of their shocks
Newcomers(roster, diff) ==
    LET avg_wealth == Sum(roster) \div Len(roster)
    IN  {[i \in 1..diff |-> Max(5 * W, MulDiv(avg_wealth, s[i], R))] :
            s \in [1..diff -> Shocks]}

RemainingOneLess(roster, num_to_remove) ==
    IF num_to_remove >= Len(roster) THEN {<<>>}
    ELSE Ranked(roster, Len(roster) - num_to_remove - 1)

\* handle_population_shift, lines 113-120: the rosters left once the
\* num_to_remove highest vulnerability scores are cut, in descending order
\* of score; the scores are random, so every ranking can come out
Remaining(roster, num_to_remove) ==
    IF num_to_remove >= Len(roster) THEN {<<>>}
    ELSE Ranked(roster, Len(roster) - num_to_remove)

ShiftOutcomesUnguarded(roster, projected_population) ==
    LET n == Len(roster)
        diff == projected_population - n
    IN  IF diff > 0
        THEN IF n = 0 THEN {[i \in 1..diff |-> 5 * W]}
             ELSE {roster \o newcomers : newcomers \in Newcomers(roster, diff)}
        ELSE IF diff < 0 THEN Remaining(roster, -diff)
        ELSE {roster}

\* handle_population_shift: the rosters it can leave in self.wealth_dist
ShiftOutcomes(roster, projected_population) ==
    LET n == Len(roster)
        diff == projected_population - n
    IN  IF n = 0 THEN {roster}
        ELSE IF diff > 0
        THEN {roster \o newcomers : newcomers \in Newcomers(roster, diff)}
        ELSE IF diff < 0 THEN Remaining(roster, -diff)
        ELSE {roster}

EmptyRosterReturnsRecord == ExtinctionRecord(year)

\* run_fiscal_year, line 128: what a call on an empty roster returns
EmptyRosterReturn == IntResponse(0)

YearAlwaysCounted(y, population) == y + 1

\* run_fiscal_year, lines 127-130: the year is counted after the check for
\* an empty roster
YearAtEntry(y, population) == IF population = 0 THEN y ELSE y + 1

SurvivalFilterBeforeCost(roster, c) ==
    LET alive == SelectSeq(roster, LAMBDA w : w > 0)
    IN  [i \in 1..Len(alive) |-> alive[i] - c]

\* run_fiscal_year, lines 133-138
SurvivalFilter(roster, c) ==
    SelectSeq([i \in 1..Len(roster) |-> roster[i] - c], LAMBDA w : w > 0)

\* run_fiscal_year, line 151
GrossYield(A, n) == MulDiv(A * (W \div R), Pow(n, 1, beta), R)

\* run_fiscal_year, lines 152-153
AvgShare(gross_yield, tax_rate, n) == MulDiv(gross_yield, R - tax_rate, R) \div n

\* run_fiscal_year, lines 156-158
Distribute(survivors, avg_share, shock) ==
    [i \in 1..Len(survivors) |-> survivors[i] + MulDiv(avg_share, shock[i], R)]

\* run_fiscal_year, lines 162-164
Morale(roster, gini) ==
    MulDiv(Sum(roster) \div Len(roster), Pow(R - gini, R, 6000), R)

GrowIntellectExp(A, edu_rate) == MulDiv(A, Exp((edu_rate * 1500) \div R), R)

\* run_fiscal_year, lines 171-172
GrowIntellect(A, edu_rate) ==
    LET growth_factor == Ratio((edu_rate * 1500) \div R, Sqrt(A))
    IN  A + MulDiv(A, growth_factor, R)

\* run_fiscal_year, line 179; a morale below the resolution is floored to
\* 1e-9 as a morale of zero or less is
RawMigration(morale) ==
    LET log_ratio == IF morale <= 0
                     THEN LnRatio(1, 1000000000) - LnRatio(benchmark_morale, 1)
                     ELSE LnRatio(morale, benchmark_morale * W)
    IN  (get_migration_sensitivity * log_ratio) \div R

MAX_OUTFLOW_RATE == LnRatio(7, 10)

MigrationNoFloor(raw_migration) == raw_migration

\* run_fiscal_year, line 181
Migration(raw_migration) == Max(MAX_OUTFLOW_RATE, raw_migration)

\* run_fiscal_year, lines 184-187
ProjectedPopulation(n, migration) ==
    LET logistic_growth == (base_growth * (land_capacity - n)) \div land_capacity
    IN  (n * Exp(logistic_growth + migration)) \div R

---------------------------------------------------------------------------
(* The operations a caller can invoke.                                     *)

\* handle_population_shift(projected_population), called by the driver
HandlePopulationShift(projected_population) ==
    /\ shifts < MaxShifts
    /\ shifts' = shifts + 1
    /\ \E shifted \in ShiftOutcomes(wealth_dist, projected_population) :
           wealth_dist' = shifted
    /\ response' = IF Len(wealth_dist) = 0 THEN IntResponse(0) ELSE NoResponse
    /\ frame' = [NoFrame EXCEPT !.op = "handle_population_shift",
                                !.projected_population = projected_population,
                                !.entry = wealth_dist,
                                !.before_shift = wealth_dist,
                                !.reached = "returned",
                                !.shifted = TRUE]
    /\ UNCHANGED <<intellect, year, cost, gini_data, population_data>>

\* run_fiscal_year(edu_rate, tax_rate)
RunFiscalYear(edu_rate, tax_rate) ==
    LET called == [NoFrame EXCEPT !.op = "run_fiscal_year",
                                  !.edu_rate = edu_rate,
                                  !.tax_rate = tax_rate,
                                  !.entry = wealth_dist]
        y == YearAtEntry(year, Len(wealth_dist))
        survivors == SurvivalFilter(wealth_dist, cost)
        n == Len(survivors)
    IN
    /\ y <= MaxYear
    /\ year' = y
    /\ UNCHANGED <<cost, shifts>>
    /\ IF Len(wealth_dist) = 0
       THEN \* line 128
            /\ response' = EmptyRosterReturn
            /\ frame' = [called EXCEPT !.reached = "early_exit"]
            /\ UNCHANGED <<intellect, wealth_dist, gini_data, population_data>>
       ELSE IF n = 0
       THEN \* lines 141-148
            /\ wealth_dist' = survivors
            /\ response' = ExtinctionRecord(y)
            /\ frame' = [called EXCEPT !.reached = "extinct"]
            /\ UNCHANGED <<intellect, gini_data, population_data>>
       ELSE \E shock \in [1..n -> Shocks] :
            LET gross_yield == GrossYield(intellect, n)
                paid == Distribute(survivors, AvgShare(gross_yield, tax_rate, n), shock)
                gini == get_gini(paid)
                morale == Morale(paid, gini)
                produced == [called EXCEPT !.survivors = survivors,
                                           !.before_shift = paid,
                                           !.gross_yield = gross_yield,
                                           !.gini = gini,
                                           !.morale = morale]
            IN
            /\ gini_data' = Append(gini_data, gini)
            /\ population_data' = Append(population_data, n)
            /\ IF intellect <= 0
               THEN \* line 171 raises: math.sqrt of a negative number, or a
                    \* division by math.sqrt(0)
                    /\ wealth_dist' = paid
                    /\ intellect' = intellect
                    /\ response' = RaiseResponse
                    /\ frame' = [produced EXCEPT !.reached = "raise"]
               ELSE LET raw_migration == RawMigration(morale)
                        projected_population ==
                            ProjectedPopulation(n, Migration(raw_migration))
                    IN
                    /\ intellect' = GrowIntellect(intellect, edu_rate)
                    /\ \E shifted \in ShiftOutcomes(paid, projected_population) :
                          /\ wealth_dist' = shifted
                          /\ response' = YearRecord(y, Len(shifted), gini, morale,
                                                    gross_yield)
                    /\ frame' = [produced EXCEPT
                                    !.raw_migration = raw_migration,
                                    !.projected_population = projected_population,
                                    !.reached = "returned",
                                    !.shifted = TRUE]

Next ==
    \/ \E lever \in Levers : RunFiscalYear(lever.edu, lever.tax)
    \/ \E projected_population \in Targets :
           HandlePopulationShift(projected_population)

\* an engine built from parameters a validating constructor would accept
Init == \E config \in ValidConfigs : Construct(config)

Spec == Init /\ [][Next]_vars

\* an engine built from whatever the caller passes
InitAnyConfig == \E config \in AnyConfigs : Construct(config)

SpecAnyConfig == InitAnyConfig /\ [][Next]_vars

---------------------------------------------------------------------------
(* Vocabulary of the properties.                                           *)

Count(s, v) == Cardinality({i \in DOMAIN s : s[i] = v})

Values(s) == {s[i] : i \in DOMAIN s}

\* the multiset of a is contained in that of b
SubBag(a, b) == \A v \in Values(a) : Count(a, v) <= Count(b, v)

SameBag(a, b) == SubBag(a, b) /\ SubBag(b, a)

\* every entry that b holds beyond those of a is at least `least`
AddedAtLeast(a, b, least) ==
    \A v \in Values(b) : Count(b, v) > Count(a, v) => v >= least

\* the step is a run_fiscal_year call
RunStep == frame'.op = "run_fiscal_year"

\* the step is a run_fiscal_year call made on an empty roster
RunOnEmpty == RunStep /\ Len(wealth_dist) = 0

\* the step is a run_fiscal_year call whose survival step removes everyone
RunStarves ==
    /\ RunStep
    /\ Len(wealth_dist) > 0
    /\ \A i \in DOMAIN wealth_dist : wealth_dist[i] <= cost

\* the step is a run_fiscal_year call that reaches the growth step
RunGrows ==
    /\ RunStep
    /\ \E i \in DOMAIN wealth_dist : wealth_dist[i] > cost

HistoryUnchanged ==
    /\ intellect' = intellect
    /\ gini_data' = gini_data
    /\ population_data' = population_data

\* the last call was run_fiscal_year, entered with a non-empty roster
RanFromNonEmpty == frame.op = "run_fiscal_year" /\ frame.entry # <<>>

\* the dict of an extinct year: population 0, gini None, morale 0, yield 0
IsExtinctionRecord(r) ==
    /\ r.kind = "dict"
    /\ r.population = 0
    /\ r.gini = <<>>
    /\ r.morale = 0
    /\ r.yield = 0

---------------------------------------------------------------------------
C2_ExtinctionIsSentinel ==
    (RanFromNonEmpty /\ wealth_dist = <<>> /\ response.kind # "raise")
        => IsExtinctionRecord(response)

(* C3: once the roster is empty, every later call leaves it empty and      *)
(* leaves productivity and both histories unchanged; and the call whose    *)
(* survival step empties the roster produces nothing, grows nothing, does  *)
(* no migration and appends nothing to the histories.                      *)
C3_ExtinctionAbsorbing ==
    [][/\ Len(wealth_dist) = 0 => wealth_dist' = <<>> /\ HistoryUnchanged
       /\ RunStarves =>
             /\ wealth_dist' = <<>>
             /\ HistoryUnchanged
             /\ frame'.gross_yield = 0
             /\ ~frame'.shifted]_vars

C3_Witness ==
    /\ year >= 1
    /\ frame.op = "handle_population_shift"
    /\ frame.entry = <<>>
    /\ frame.projected_population > 0
    /\ wealth_dist = <<>>

(* C4: the year counter starts at 0 and changes only in run_fiscal_year:   *)
(* a call entered with a non-empty roster adds exactly one, every other    *)
(* call leaves it unchanged.                                               *)
C4_YearCounter ==
    /\ year = 0
    /\ [][year' = year + (IF RunStep /\ Len(wealth_dist) > 0 THEN 1 ELSE 0)]_vars

C4_Witness ==
    /\ year = MaxYear
    /\ frame.op = "run_fiscal_year"
    /\ frame.reached = "early_exit"

(* C5: no engine exists with productivity <= 0 or cost <= 0, because the   *)
(* constructor rejects such parameters.                                    *)
C5_ConstructionValidated == intellect > 0 /\ cost > 0

(* C6, as stated: after handle_population_shift(target) the population is  *)
(* non-negative and, whenever target >= 0, equals target, also when the    *)
(* roster was empty at the call.                                           *)
C6_AsStated ==
    frame.shifted =>
        /\ Len(wealth_dist) >= 0
        /\ frame.projected_population >= 0
              => Len(wealth_dist) = frame.projected_population

(* C6, amended: after handle_population_shift(target) on a non-empty       *)
(* roster the population equals target when target >= 0 and is 0 when      *)
(* target < 0; on an empty roster the call changes nothing.                *)
C6_PopulationMatchesTarget ==
    frame.shifted =>
        IF frame.before_shift = <<>>
        THEN wealth_dist = <<>>
        ELSE Len(wealth_dist) = Max(frame.projected_population, 0)

C6_Witness ==
    /\ frame.op = "handle_population_shift"
    /\ frame.before_shift # <<>>
    /\ frame.projected_population > Len(frame.before_shift)
    /\ Len(wealth_dist) = frame.projected_population

(* C7, as stated: handle_population_shift leaves the multiset of wealth    *)
(* values unchanged when target = current; removes exactly current -       *)
(* target entries, keeping the others unmodified, when target < current;   *)
(* adds exactly target - current entries, each >= 5.0, to the unmodified   *)
(* old ones when target > current.                                         *)
C7_AsStated ==
    frame.shifted =>
        LET old == frame.before_shift
            target == frame.projected_population
        IN  /\ target = Len(old) => SameBag(old, wealth_dist)
            /\ target < Len(old) =>
                  /\ SubBag(wealth_dist, old)
                  /\ Len(old) - Len(wealth_dist) = Len(old) - target
            /\ target > Len(old) =>
                  /\ SubBag(old, wealth_dist)
                  /\ Len(wealth_dist) - Len(old) = target - Len(old)
                  /\ AddedAtLeast(old, wealth_dist, 5 * W)

(* C7, amended: as stated for a non-empty roster and target >= 0; a        *)
(* negative target removes all current entries, and on an empty roster     *)
(* nothing is added.                                                       *)
C7_WholeEntriesOnly ==
    frame.shifted =>
        LET old == frame.before_shift
            target == frame.projected_population
        IN  /\ target = Len(old) => SameBag(old, wealth_dist)
            /\ target < Len(old) =>
                  /\ SubBag(wealth_dist, old)
                  /\ Len(old) - Len(wealth_dist) =
                        (IF target >= 0 THEN Len(old) - target ELSE Len(old))
            /\ target > Len(old) =>
                  /\ SubBag(old, wealth_dist)
                  /\ Len(wealth_dist) - Len(old) =
                        (IF old = <<>> THEN 0 ELSE target - Len(old))
                  /\ AddedAtLeast(old, wealth_dist, 5 * W)

C7_Witness ==
    /\ frame.shifted
    /\ frame.projected_population >= 1
    /\ frame.projected_population < Len(frame.before_shift)
    /\ Cardinality(Values(frame.before_shift)) > 1
    /\ Len(wealth_dist) = frame.projected_population

C10_ProductivityGrowth ==
    /\ intellect > 0
    /\ [][/\ intellect' > 0
          /\ intellect' >= intellect
          /\ intellect' =
                IF RunGrows
                THEN intellect
                       + MulDiv(intellect,
                                Ratio((frame'.edu_rate * 1500) \div R, Sqrt(intellect)),
                                R)
                ELSE intellect]_vars

C10_Witness ==
    /\ frame.op = "run_fiscal_year"
    /\ frame.reached = "returned"
    /\ frame.edu_rate > 0
    /\ year >= 2
    /\ intellect > 45000

====
